---- MODULE Spec2Model ----
(***************************************************************************)
(* Model of AsyncHarmonicWrapper (asyncHarmon.py): a thread pool shared by *)
(* the batch calls of one wrapper instance, the fan-out/fan-in engine      *)
(* _parralelizeCallables, and the batched catalog operations built on it.  *)
(*                                                                         *)
(* Python objects are modelled as tuples whose first component is a tag:   *)
(*   <<"val", method, arg>>       the value a client method returns        *)
(*   <<"None">>                   Python's None                            *)
(*   <<"exc", method, arg, unit>> the exception object raised by a client  *)
(*                                method while running work unit `unit`    *)
(*   <<"unset">>                  the result slot of an unfinished future  *)
(***************************************************************************)
EXTENDS Naturals, Sequences, FiniteSets

\* ------------------------------------------------------------------ bounds
\* Most work units the batch calls in flight hand to the pool altogether; it
\* also bounds the length of one caller's list.
MaxUnits == 2
\* Largest worker count the wrapper is constructed with.
MaxWorkers == 2

\* The threads that call a batched operation on the one wrapper instance.
Callers == {"t1", "t2"}
\* The items (urls, urns, search keywords) callers pass in.
Items == {"a", "b", "x"}
\* The items for which the remote client raises instead of answering.
FailingItems == {"x"}

VARIABLES
    numWorkers,         \* self.numWorkers, the size the pool was built with
    queue,              \* the pool's work queue: units submitted, not started
    running,            \* the units the pool's worker threads are executing
    futures,            \* unit -> the Future that pool.submit returned for it
    pc,                 \* caller -> position of that thread in its batch call
    op,                 \* caller -> the batched catalog operation it called
    items,              \* caller -> the list of items the caller passed in
    listOfCallables,    \* caller -> argument of _parralelizeCallables
    listOfParamTuples,  \* caller -> argument of _parralelizeCallables
    futureObjs,         \* caller -> local list of futures (as unit ids)
    fullyResolved,      \* caller -> local flag of the wait loop
    scan,               \* caller -> position of `for future in futureObjs` (0: no loop running)
    results,            \* caller -> the list the comprehension is building
    outcome,            \* caller -> what the call gave back to its caller
    called,             \* caller -> the inputs as they were at call entry
    outOfOrder,         \* caller -> some unit finished before an earlier one
    invoked             \* unit -> number of times a worker called its callable

vars == <<numWorkers, queue, running, futures, pc, op, items, listOfCallables,
          listOfParamTuples, futureObjs, fullyResolved, scan, results,
          outcome, called, outOfOrder, invoked>>

poolVars == <<queue, running, futures>>
inputVars == <<op, items, listOfCallables, listOfParamTuples, called>>
callerVars == <<pc, futureObjs, fullyResolved, scan, results, outcome>>

Units == Callers \X (1..MaxUnits)

\* All lists over S of length at most n.
RECURSIVE SeqsUpTo(_, _)
SeqsUpTo(S, n) ==
    IF n = 0 THEN {<<>>}
    ELSE LET shorter == SeqsUpTo(S, n - 1)
         IN shorter \cup {Append(s, e) : s \in {t \in shorter : Len(t) = n - 1}, e \in S}

\* The lists of items a caller may pass in.
ItemLists == SeqsUpTo(Items, MaxUnits)

\* ------------------------------------------------------- the remote client
\* self.rawClient.<method>(arg) while running work unit u: the client either
\* answers with a value or raises a fresh exception object.
RawClientCall(method, arg, u) ==
    IF arg \in FailingItems
    THEN <<"exc", method, arg, u>>
    ELSE <<"val", method, arg>>

IsException(obj) == obj[1] = "exc"

\* ------------------------------------------------------ singular operations
\* safe_get_company_by_urn without its try/except.
UnsafeGetCompanyByUrn(urn, u) == RawClientCall("get_company_by_id", urn, u)

\* safe_get_company_by_urn: try: return rawClient.get_company_by_id(urn)
\*                          except: return None
safe_get_company_by_urn(urn, u) ==
    LET r == RawClientCall("get_company_by_id", urn, u)
    IN IF IsException(r) THEN <<"None">> ELSE r

\* The singular operations of the wrapper, each forwarding to the client
\* method of the same name: enrich_company(url), enrich_person(url) and
\* search(keywords_or_query) with the other parameters at their defaults.
enrich_company(url, u) == RawClientCall("enrich_company", url, u)
enrich_person(url, u) == RawClientCall("enrich_person", url, u)
search(keywords, u) == RawClientCall("search", keywords, u)

\* Every callable wrapped in the try/except of safe_get_company_by_urn.
InvokeSuppressing(callable, args, u) ==
    LET r == RawClientCall(IF callable = "safe_get_company_by_urn"
                           THEN "get_company_by_id" ELSE callable, args[1], u)
    IN IF IsException(r) THEN <<"None">> ELSE r

\* callable(*args) as run by a pool worker for unit u.  The callables of the
\* catalog are bound methods taking the item as first positional argument.
Invoke(callable, args, u) ==
    IF callable = "safe_get_company_by_urn"
    THEN safe_get_company_by_urn(args[1], u)
    ELSE RawClientCall(callable, args[1], u)

\* ------------------------------------------------------- batched operations
BatchOps == {"enrich_companies", "enrich_people", "batch_searches",
             "batch_safe_get_company_by_urn"}

\* enrich_people written as a copy of enrich_companies, callable included.
CallableOfCopied(o) ==
    CASE o = "enrich_companies" -> "enrich_company"
      [] o = "enrich_people" -> "enrich_company"
      [] o = "batch_searches" -> "search"
      [] o = "batch_safe_get_company_by_urn" -> "safe_get_company_by_urn"

\* The singular callable each batched operation repeats.
CallableOf(o) ==
    CASE o = "enrich_companies" -> "enrich_company"
      [] o = "enrich_people" -> "enrich_person"
      [] o = "batch_searches" -> "search"
      [] o = "batch_safe_get_company_by_urn" -> "safe_get_company_by_urn"

\* The caller's list of items (url_or_enrichment_requests, listOfURLS,
\* listOfURNs).  batch_searches takes no such list: its caller passes the
\* list of argument tuples, which goes to the engine as it is.
ItemList(o, xs) == IF o = "batch_searches" THEN <<>> ELSE xs

\* The list of argument tuples that reaches the engine: [(x,) for x in xs]
\* built by the operation, or for batch_searches the caller's own list of
\* tuples (keywords_or_query,).
ParamTuples(o, xs) == [k \in 1..Len(xs) |-> <<xs[k]>>]

\* The list of callables the operation passes to the engine.
CallableList(o, xs) == [k \in 1..Len(xs) |-> CallableOf(o)]

\* ------------------------------------------------------------------- futures
\* A Future with the work item pool.submit(fn, *args) bound to it.  NoFuture
\* stands for a unit that has not been submitted.
NoFuture == [state |-> "NONE", result |-> <<"unset">>, fn |-> "none", args |-> <<>>]
NewFuture(fn, args) == [state |-> "PENDING", result |-> <<"unset">>, fn |-> fn, args |-> args]

\* Future.done()
FutureDone(f) == f.state = "FINISHED"

\* Future.result() returns (or raises) only once the future is finished.
ResultReadyEarly(f) == f.state \in {"RUNNING", "FINISHED"}
ResultReady(f) == f.state = "FINISHED"

\* Future.result() raises the stored exception, otherwise returns the value.
ResultNeverRaises(f) == FALSE
ResultRaises(f) == IsException(f.result)

\* The exception object result() raises: the stored one itself.
Reraised(f) == f.result

\* --------------------------------------------------------------- the pool
\* ThreadPoolExecutor(numWorkers): a unit starts only on a free worker thread.
HasFreeWorkerOffByOne(run, n) == Cardinality(run) <= n
HasFreeWorker(run, n) == Cardinality(run) < n

\* pool.submit puts the work item at the tail of the unbounded work queue.
EnqueueDropWhenBusy(q, u) == IF Len(q) >= 1 THEN q ELSE Append(q, u)
Enqueue(q, u) == Append(q, u)

\* results.append order of the list comprehension.
CollectPrepend(res, v) == <<v>> \o res
Collect(res, v) == Append(res, v)

\* `while not fullyResolved:` goes into the for loop, or on to the statement
\* after the loop (the list comprehension).
WhileTest(resolved) == IF ~resolved THEN "for" ELSE "collect"

TypeOK ==
    /\ numWorkers \in 1..MaxWorkers
    /\ running \subseteq Units
    /\ pc \in [Callers -> {"idle", "submit", "for", "sleep", "collect",
                           "returned", "raised"}]
    /\ op \in [Callers -> BatchOps \cup {"none"}]
    /\ fullyResolved \in [Callers -> BOOLEAN]
    /\ outOfOrder \in [Callers -> BOOLEAN]
    /\ invoked \in [Units -> 0..1]
    /\ \A u \in Units : futures[u].state \in {"NONE", "PENDING", "RUNNING", "FINISHED"}

Init ==
    /\ numWorkers \in 1..MaxWorkers
    /\ queue = <<>>
    /\ running = {}
    /\ futures = [u \in Units |-> NoFuture]
    /\ pc = [c \in Callers |-> "idle"]
    /\ op = [c \in Callers |-> "none"]
    /\ items = [c \in Callers |-> <<>>]
    /\ listOfCallables = [c \in Callers |-> <<>>]
    /\ listOfParamTuples = [c \in Callers |-> <<>>]
    /\ futureObjs = [c \in Callers |-> <<>>]
    /\ fullyResolved = [c \in Callers |-> FALSE]
    /\ scan = [c \in Callers |-> 0]
    /\ results = [c \in Callers |-> <<>>]
    /\ outcome = [c \in Callers |-> <<"pending">>]
    /\ called = [c \in Callers |-> <<<<>>, <<>>, <<>>>>]
    /\ outOfOrder = [c \in Callers |-> FALSE]
    /\ invoked = [u \in Units |-> 0]

\* A caller thread invokes batched operation o over the items xs; the
\* operation builds the callable and argument lists and enters
\* _parralelizeCallables (futureObjs = []).
CallBatch(c, o, xs) ==
    /\ pc[c] = "idle"
    /\ \A d \in Callers \ {c} : Len(xs) + Len(listOfParamTuples[d]) <= MaxUnits
    /\ op' = [op EXCEPT ![c] = o]
    /\ items' = [items EXCEPT ![c] = ItemList(o, xs)]
    /\ listOfCallables' = [listOfCallables EXCEPT ![c] = CallableList(o, xs)]
    /\ listOfParamTuples' = [listOfParamTuples EXCEPT ![c] = ParamTuples(o, xs)]
    /\ called' = [called EXCEPT ![c] =
                     <<ItemList(o, xs), CallableList(o, xs), ParamTuples(o, xs)>>]
    /\ futureObjs' = [futureObjs EXCEPT ![c] = <<>>]
    /\ pc' = [pc EXCEPT ![c] = "submit"]
    /\ UNCHANGED <<numWorkers, poolVars, fullyResolved, scan, results, outcome,
                   outOfOrder, invoked>>

\* A submit loop that takes the units off the front of its argument lists.
SubmitConsuming(c) ==
    /\ pc[c] = "submit"
    /\ listOfCallables[c] # <<>>
    /\ LET u == <<c, Len(futureObjs[c]) + 1>>
       IN /\ queue' = Enqueue(queue, u)
          /\ futures' = [futures EXCEPT ![u] =
                 NewFuture(Head(listOfCallables[c]), Head(listOfParamTuples[c]))]
          /\ futureObjs' = [futureObjs EXCEPT ![c] = Append(@, u)]
    /\ listOfCallables' = [listOfCallables EXCEPT ![c] = Tail(@)]
    /\ listOfParamTuples' = [listOfParamTuples EXCEPT ![c] = Tail(@)]
    /\ UNCHANGED <<numWorkers, running, pc, op, items, called, fullyResolved, scan,
                   results, outcome, outOfOrder, invoked>>

\* A submit loop that lets the previous unit finish before submitting the next.
SubmitAfterPrevious(c) ==
    /\ pc[c] = "submit"
    /\ Len(futureObjs[c]) < Len(listOfCallables[c])
    /\ futureObjs[c] # <<>> => FutureDone(futures[futureObjs[c][Len(futureObjs[c])]])
    /\ LET u == <<c, Len(futureObjs[c]) + 1>>
       IN /\ queue' = Enqueue(queue, u)
          /\ futures' = [futures EXCEPT ![u] =
                 NewFuture(listOfCallables[c][u[2]], listOfParamTuples[c][u[2]])]
          /\ futureObjs' = [futureObjs EXCEPT ![c] = Append(@, u)]
    /\ UNCHANGED <<numWorkers, running, pc, inputVars, fullyResolved, scan,
                   results, outcome, outOfOrder, invoked>>

\* One iteration of `for i in range(len(listOfCallables))`: submit unit i,
\* which binds listOfCallables[i] and listOfParamTuples[i] to a new future,
\* and append the future to futureObjs.
Submit(c) ==
    /\ pc[c] = "submit"
    /\ Len(futureObjs[c]) < Len(listOfCallables[c])
    /\ LET u == <<c, Len(futureObjs[c]) + 1>>
       IN /\ queue' = Enqueue(queue, u)
          /\ futures' = [futures EXCEPT ![u] =
                 NewFuture(listOfCallables[c][u[2]], listOfParamTuples[c][u[2]])]
          /\ futureObjs' = [futureObjs EXCEPT ![c] = Append(@, u)]
    /\ UNCHANGED <<numWorkers, running, pc, inputVars, fullyResolved, scan,
                   results, outcome, outOfOrder, invoked>>

\* The submit loop ends; fullyResolved = False; the first test of
\* `while not fullyResolved` enters the for loop at its first future.
SubmitEnd(c) ==
    /\ pc[c] = "submit"
    /\ Len(futureObjs[c]) >= Len(listOfCallables[c])
    /\ fullyResolved' = [fullyResolved EXCEPT ![c] = FALSE]
    /\ pc' = [pc EXCEPT ![c] = WhileTest(FALSE)]
    /\ scan' = [scan EXCEPT ![c] = 1]
    /\ UNCHANGED <<numWorkers, poolVars, inputVars, futureObjs, results, outcome,
                   outOfOrder, invoked>>

\* `if not future.done()` is false: the for loop moves to the next future.
ScanDone(c) ==
    /\ pc[c] = "for"
    /\ scan[c] <= Len(futureObjs[c])
    /\ FutureDone(futures[futureObjs[c][scan[c]]])
    /\ scan' = [scan EXCEPT ![c] = @ + 1]
    /\ UNCHANGED <<numWorkers, poolVars, pc, inputVars, futureObjs, fullyResolved,
                   results, outcome, outOfOrder, invoked>>

\* `if not future.done()` is true: the thread enters time.sleep(0.2).
ScanNotDone(c) ==
    /\ pc[c] = "for"
    /\ scan[c] <= Len(futureObjs[c])
    /\ ~FutureDone(futures[futureObjs[c][scan[c]]])
    /\ pc' = [pc EXCEPT ![c] = "sleep"]
    /\ UNCHANGED <<numWorkers, poolVars, inputVars, futureObjs, fullyResolved, scan,
                   results, outcome, outOfOrder, invoked>>

\* The sleep is over; break leaves the for loop.  Then the statement after
\* the for loop, fullyResolved = True, and the while test.
SleepBreak(c) ==
    /\ pc[c] = "sleep"
    /\ fullyResolved' = [fullyResolved EXCEPT ![c] = TRUE]
    /\ pc' = [pc EXCEPT ![c] = WhileTest(TRUE)]
    /\ scan' = [scan EXCEPT ![c] = IF WhileTest(TRUE) = "for" THEN 1 ELSE 0]
    /\ UNCHANGED <<numWorkers, poolVars, inputVars, futureObjs, results, outcome,
                   outOfOrder, invoked>>

\* A wait loop that sleeps at the end of every scan, finished or not.
ScanEndSleeping(c) ==
    /\ pc[c] = "for"
    /\ scan[c] > Len(futureObjs[c])
    /\ pc' = [pc EXCEPT ![c] = "sleep"]
    /\ UNCHANGED <<numWorkers, poolVars, inputVars, futureObjs, fullyResolved, scan,
                   results, outcome, outOfOrder, invoked>>

\* The for loop runs off the end of futureObjs without a sleep.  Then
\* fullyResolved = True and the while test.
ScanEnd(c) ==
    /\ pc[c] = "for"
    /\ scan[c] > Len(futureObjs[c])
    /\ fullyResolved' = [fullyResolved EXCEPT ![c] = TRUE]
    /\ pc' = [pc EXCEPT ![c] = WhileTest(TRUE)]
    /\ scan' = [scan EXCEPT ![c] = IF WhileTest(TRUE) = "for" THEN 1 ELSE 0]
    /\ UNCHANGED <<numWorkers, poolVars, inputVars, futureObjs, results, outcome,
                   outOfOrder, invoked>>

\* A comprehension that takes its next result from whichever finished future
\* the pool holds, of this batch or another.
CollectResultShared(c) ==
    /\ pc[c] = "collect"
    /\ Len(results[c]) < Len(futureObjs[c])
    /\ \E u \in Units :
           /\ ResultReady(futures[u])
           /\ ~ResultRaises(futures[u])
           /\ results' = [results EXCEPT ![c] = Collect(@, futures[u].result)]
    /\ UNCHANGED <<numWorkers, poolVars, pc, inputVars, futureObjs, fullyResolved,
                   scan, outcome, outOfOrder, invoked>>

\* One element of [futureObj.result() for futureObj in futureObjs]: result()
\* blocks until that future is finished, then returns its value.
CollectResult(c) ==
    /\ pc[c] = "collect"
    /\ Len(results[c]) < Len(futureObjs[c])
    /\ LET f == futures[futureObjs[c][Len(results[c]) + 1]]
       IN /\ ResultReady(f)
          /\ ~ResultRaises(f)
          /\ results' = [results EXCEPT ![c] = Collect(@, f.result)]
    /\ UNCHANGED <<numWorkers, poolVars, pc, inputVars, futureObjs, fullyResolved,
                   scan, outcome, outOfOrder, invoked>>

\* A call that raises the exception of whichever unit of the batch is found
\* failed, in completion order.
CollectRaiseAsCompleted(c) ==
    /\ pc[c] = "collect"
    /\ Len(results[c]) < Len(futureObjs[c])
    /\ \E k \in 1..Len(futureObjs[c]) :
           LET f == futures[futureObjs[c][k]]
           IN /\ ResultReady(f)
              /\ ResultRaises(f)
              /\ outcome' = [outcome EXCEPT ![c] = <<"raise", Reraised(f)>>]
    /\ pc' = [pc EXCEPT ![c] = "raised"]
    /\ UNCHANGED <<numWorkers, poolVars, inputVars, futureObjs, fullyResolved,
                   scan, results, outOfOrder, invoked>>

\* A failing batch that cancels its units still waiting in the queue.
CollectRaiseCancelling(c) ==
    /\ pc[c] = "collect"
    /\ Len(results[c]) < Len(futureObjs[c])
    /\ LET f == futures[futureObjs[c][Len(results[c]) + 1]]
       IN /\ ResultReady(f)
          /\ ResultRaises(f)
          /\ outcome' = [outcome EXCEPT ![c] = <<"raise", Reraised(f)>>]
    /\ pc' = [pc EXCEPT ![c] = "raised"]
    /\ queue' = SelectSeq(queue, LAMBDA u : u[1] # c)
    /\ futures' = [u \in Units |->
           IF u[1] = c /\ futures[u].state = "PENDING"
           THEN [futures[u] EXCEPT !.state = "CANCELLED"]
           ELSE futures[u]]
    /\ UNCHANGED <<numWorkers, running, inputVars, futureObjs, fullyResolved,
                   scan, results, outOfOrder, invoked>>

\* result() re-raises the unit's exception: it leaves the comprehension and
\* _parralelizeCallables, and the batched operation, none of which catch it.
CollectRaise(c) ==
    /\ pc[c] = "collect"
    /\ Len(results[c]) < Len(futureObjs[c])
    /\ LET f == futures[futureObjs[c][Len(results[c]) + 1]]
       IN /\ ResultReady(f)
          /\ ResultRaises(f)
          /\ outcome' = [outcome EXCEPT ![c] = <<"raise", Reraised(f)>>]
    /\ pc' = [pc EXCEPT ![c] = "raised"]
    /\ UNCHANGED <<numWorkers, poolVars, inputVars, futureObjs, fullyResolved,
                   scan, results, outOfOrder, invoked>>

\* `return results`, passed on unchanged by the batched operation.
Return(c) ==
    /\ pc[c] = "collect"
    /\ Len(results[c]) >= Len(futureObjs[c])
    /\ outcome' = [outcome EXCEPT ![c] = <<"list", results[c]>>]
    /\ pc' = [pc EXCEPT ![c] = "returned"]
    /\ UNCHANGED <<numWorkers, poolVars, inputVars, futureObjs, fullyResolved,
                   scan, results, outOfOrder, invoked>>

\* A worker that reads the head of the work queue without removing it.
WorkerStartLeavesQueued ==
    /\ queue # <<>>
    /\ HasFreeWorker(running, numWorkers)
    /\ running' = running \cup {Head(queue)}
    /\ queue' = queue
    /\ futures' = [futures EXCEPT ![Head(queue)].state = "RUNNING"]
    /\ invoked' = [invoked EXCEPT ![Head(queue)] = @ + 1]
    /\ UNCHANGED <<numWorkers, inputVars, callerVars, outOfOrder>>

\* A free worker thread takes the unit at the head of the work queue and
\* starts running its callable.
WorkerStart ==
    /\ queue # <<>>
    /\ HasFreeWorker(running, numWorkers)
    /\ running' = running \cup {Head(queue)}
    /\ queue' = Tail(queue)
    /\ futures' = [futures EXCEPT ![Head(queue)].state = "RUNNING"]
    /\ invoked' = [invoked EXCEPT ![Head(queue)] = @ + 1]
    /\ UNCHANGED <<numWorkers, inputVars, callerVars, outOfOrder>>

\* The callable of unit u returns or raises; the worker stores the value or
\* the exception in the future and becomes free.
WorkerFinish(u) ==
    /\ u \in running
    /\ running' = running \ {u}
    /\ futures' = [futures EXCEPT ![u].state = "FINISHED",
                                  ![u].result = Invoke(futures[u].fn, futures[u].args, u)]
    /\ outOfOrder' = [outOfOrder EXCEPT ![u[1]] =
           @ \/ \E k \in 1..(u[2] - 1) : futures[<<u[1], k>>].state # "FINISHED"]
    /\ UNCHANGED <<numWorkers, queue, inputVars, callerVars, invoked>>

\* A caller thread that has not called yet calls some batched operation on
\* some list.
Call(c) ==
    /\ pc[c] = "idle"
    /\ \E o \in BatchOps, xs \in ItemLists : CallBatch(c, o, xs)

CallerStep(c) ==
    \/ Submit(c)
    \/ SubmitEnd(c)
    \/ ScanDone(c)
    \/ ScanNotDone(c)
    \/ SleepBreak(c)
    \/ ScanEnd(c)
    \/ CollectResult(c)
    \/ CollectRaise(c)
    \/ Return(c)

Next ==
    \/ \E c \in Callers : Call(c)
    \/ \E c \in Callers : CallerStep(c)
    \/ WorkerStart
    \/ \E u \in Units : WorkerFinish(u)

Spec == Init /\ [][Next]_vars

\* The calls of the liveness specification.  Whether a call ends depends on
\* which of its units fail, not on the values they produce: one operation
\* that lets failures through and the one that suppresses them, over lists of
\* one item whose lookup succeeds and one whose lookup fails.
LiveOps == {"enrich_companies", "batch_safe_get_company_by_urn"}
LiveItemLists == SeqsUpTo({"a"} \cup FailingItems, MaxUnits)

CallLive(c) ==
    /\ pc[c] = "idle"
    /\ \E o \in LiveOps, xs \in LiveItemLists : CallBatch(c, o, xs)

NextLive ==
    \/ \E c \in Callers : CallLive(c)
    \/ \E c \in Callers : CallerStep(c)
    \/ WorkerStart
    \/ \E u \in Units : WorkerFinish(u)

\* The pool's worker threads and the caller threads are scheduled fairly, and
\* every unit's operation terminates.
FairSpec ==
    /\ Init
    /\ [][NextLive]_vars
    /\ WF_vars(WorkerStart)
    /\ \A u \in Units : WF_vars(WorkerFinish(u))
    /\ \A c \in Callers : WF_vars(CallerStep(c))

\* ------------------------------------------------------------ properties
\* The size of caller c's batch, its units, and whether its call is over.
BatchSize(c) == Len(called[c][2])
UnitsOf(c) == {<<c, k>> : k \in 1..BatchSize(c)}
Terminal(c) == pc[c] \in {"returned", "raised"}
AllFinished(c) == \A u \in UnitsOf(c) : futures[u].state = "FINISHED"

\* What unit k of caller c's batch produces: the k-th callable, as it was at
\* call entry, applied to the k-th argument tuple.
Produced(c, k) == Invoke(called[c][2][k], called[c][3][k], <<c, k>>)
AllSucceed(c) == \A k \in 1..BatchSize(c) : ~IsException(Produced(c, k))

\* C1: a batch whose operations all succeed returns a list of exactly N
\* results, the i-th being what listOfCallables[i] produces on
\* listOfParamTuples[i], whatever the worker count and completion order.
C1_OrderedResults ==
    \A c \in Callers :
        (Terminal(c) /\ AllSucceed(c)) =>
            /\ pc[c] = "returned"
            /\ outcome[c][1] = "list"
            /\ Len(outcome[c][2]) = BatchSize(c)
            /\ \A k \in 1..BatchSize(c) : outcome[c][2][k] = Produced(c, k)

\* A batch of two units with different results has returned, its second unit
\* having finished before its first.
C1_Witness ==
    \E c \in Callers :
        /\ pc[c] = "returned"
        /\ BatchSize(c) >= 2
        /\ outOfOrder[c]
        /\ outcome[c][2][1] # outcome[c][2][2]

\* C2: a batch call raises only once every unit of the batch is terminal:
\* never while one of them is still queued or running.
C2_RaiseOnlyWhenAllTerminal ==
    \A c \in Callers : pc[c] = "raised" => AllFinished(c)

\* C3: a batch call returns a list only once every unit of the batch has
\* completed: never while one of them is still queued or running.
C3_ReturnOnlyWhenAllDone ==
    \A c \in Callers : pc[c] = "returned" => AllFinished(c)

\* A batch with more units than there are workers has returned.
C3_Witness ==
    \E c \in Callers :
        /\ pc[c] = "returned"
        /\ BatchSize(c) >= 2
        /\ BatchSize(c) > numWorkers

\* C4: all-or-nothing: with a failing unit the call raises and never hands
\* back a list; a list handed back is full-length and holds no failure.
C4_AllOrNothing ==
    \A c \in Callers :
        /\ (pc[c] # "idle" /\ ~AllSucceed(c)) =>
               /\ pc[c] # "returned"
               /\ outcome[c][1] # "list"
               /\ (Terminal(c) => outcome[c][1] = "raise")
        /\ outcome[c][1] = "list" =>
               /\ AllSucceed(c)
               /\ Len(outcome[c][2]) = BatchSize(c)
               /\ \A k \in 1..BatchSize(c) : outcome[c][2][k][1] \in {"val", "None"}

\* A batch has raised although one of its units succeeded.
C4_Witness ==
    \E c \in Callers :
        /\ pc[c] = "raised"
        /\ outcome[c][1] = "raise"
        /\ \E u \in UnitsOf(c) :
               futures[u].state = "FINISHED" /\ ~IsException(futures[u].result)

QueuedUnits == {queue[k] : k \in 1..Len(queue)}

\* C5: at most numWorkers units execute at once, over all batches in flight;
\* a submitted unit that is not executing and not finished is in the queue.
C5_ConcurrencyCeiling ==
    /\ Cardinality(running) <= numWorkers
    /\ Cardinality({u \in Units : futures[u].state = "RUNNING"}) <= numWorkers
    /\ \A u \in Units :
           /\ futures[u].state = "RUNNING" <=> u \in running
           /\ futures[u].state = "PENDING" <=> u \in QueuedUnits

\* Every worker is busy and a unit waits, with units of two batches in the pool.
C5_Witness ==
    /\ Cardinality(running) = numWorkers
    /\ queue # <<>>
    /\ \E u \in running, v \in QueuedUnits : u[1] # v[1]

\* C6: under fair scheduling every batch call that was made eventually
\* returns or raises, also when it has more units than there are workers.
C6_Termination ==
    \A c \in Callers : (pc[c] # "idle") ~> Terminal(c)

\* A batch with more units than workers is over.
C6_Witness ==
    \E c \in Callers : Terminal(c) /\ BatchSize(c) > numWorkers /\ AllFinished(c)

\* C7: a batch of no units submits nothing, never sleeps, can always take its
\* next step whatever the pool is doing, and returns the empty list.
C7_EmptyBatch ==
    \A c \in Callers :
        (pc[c] # "idle" /\ BatchSize(c) = 0) =>
            /\ futureObjs[c] = <<>>
            /\ \A k \in 1..MaxUnits : futures[<<c, k>>].state = "NONE"
            /\ pc[c] \notin {"sleep", "raised"}
            /\ pc[c] = "returned" => (outcome[c][1] = "list" /\ outcome[c][2] = <<>>)
            /\ ~Terminal(c) => ENABLED CallerStep(c)

\* An empty batch has returned, every worker being busy and a unit waiting.
C7_Witness ==
    \E c \in Callers :
        /\ pc[c] = "returned"
        /\ BatchSize(c) = 0
        /\ Cardinality(running) = numWorkers
        /\ queue # <<>>

\* The slot of a suppressed lookup of urn.
SafeSlot(urn) ==
    IF urn \in FailingItems THEN <<"None">> ELSE <<"val", "get_company_by_id", urn>>

\* C8: safe_get_company_by_urn never raises (None for a failed lookup, the
\* value otherwise), so batch_safe_get_company_by_urn never raises and
\* returns one slot per urn in input order.
C8_SafeLookup ==
    /\ \A u \in Units :
           (futures[u].fn = "safe_get_company_by_urn" /\ futures[u].state = "FINISHED")
               => futures[u].result = SafeSlot(futures[u].args[1])
    /\ \A c \in Callers :
           op[c] = "batch_safe_get_company_by_urn" =>
               /\ pc[c] # "raised"
               /\ outcome[c][1] # "raise"
               /\ pc[c] = "returned" =>
                      /\ outcome[c][1] = "list"
                      /\ Len(outcome[c][2]) = Len(items[c])
                      /\ \A k \in 1..Len(items[c]) :
                             outcome[c][2][k] = SafeSlot(items[c][k])

\* A batch of suppressed lookups has returned a list with a None slot and a
\* value slot.
C8_Witness ==
    \E c \in Callers :
        /\ op[c] = "batch_safe_get_company_by_urn"
        /\ pc[c] = "returned"
        /\ \E j, k \in 1..Len(outcome[c][2]) :
               outcome[c][2][j] = <<"None">> /\ outcome[c][2][k][1] = "val"

UnsuppressedOps == {"enrich_companies", "enrich_people", "batch_searches"}

\* C9: outside safe_get_company_by_urn a unit's failure stays a failure: the
\* batch returns no list, and what it raises is the very exception one of its
\* own failing units raised.
C9_NoSuppressionElsewhere ==
    \A c \in Callers :
        op[c] \in UnsuppressedOps =>
            /\ \A k \in 1..BatchSize(c) :
                   futures[<<c, k>>].state = "FINISHED" =>
                       futures[<<c, k>>].result =
                           RawClientCall(CallableOf(op[c]), called[c][3][k][1], <<c, k>>)
            /\ pc[c] = "raised" =>
                   /\ outcome[c][1] = "raise"
                   /\ \E k \in 1..BatchSize(c) :
                          /\ called[c][3][k][1] \in FailingItems
                          /\ outcome[c][2] =
                                 <<"exc", CallableOf(op[c]), called[c][3][k][1], <<c, k>>>>
            /\ pc[c] = "returned" =>
                   \A k \in 1..BatchSize(c) : called[c][3][k][1] \notin FailingItems

\* Two unsuppressed batches with the same failing item have both raised (each
\* its own unit's exception).
C9_Witness ==
    \E c, d \in Callers :
        /\ c # d
        /\ op[c] \in UnsuppressedOps /\ op[d] = op[c]
        /\ pc[c] = "raised" /\ pc[d] = "raised"
        /\ outcome[c][2][3] = outcome[d][2][3]

\* C10: when the call is over, the caller's list of items and both argument
\* lists of _parralelizeCallables (the second being the caller's own list in
\* batch_searches) are what they were at call entry.
C10_InputsUnchanged ==
    \A c \in Callers :
        Terminal(c) =>
            /\ items[c] = called[c][1]
            /\ listOfCallables[c] = called[c][2]
            /\ listOfParamTuples[c] = called[c][3]

\* A batch_searches call over two argument tuples is over.
C10_Witness ==
    \E c \in Callers :
        /\ Terminal(c)
        /\ op[c] = "batch_searches"
        /\ BatchSize(c) >= 2
        /\ AllFinished(c)

\* The items of caller c's call, one per argument tuple.
ItemsOf(c) == [k \in 1..Len(called[c][3]) |-> called[c][3][k][1]]

\* What the singular operation matching batched operation o gives for x.
Singular(o, x, u) ==
    CASE o = "enrich_companies" -> enrich_company(x, u)
      [] o = "enrich_people" -> enrich_person(x, u)
      [] o = "batch_searches" -> search(x, u)

\* C11: enrich_companies, enrich_people and batch_searches build one work
\* unit per item, all with the same callable, and when every singular call
\* succeeds they return the list of the singular operation's results, in the
\* order and of the length of the input.
C11_BatchIsMap ==
    \A c \in Callers :
        op[c] \in UnsuppressedOps =>
            /\ Len(listOfCallables[c]) = Len(ItemsOf(c))
            /\ \A k \in 1..Len(listOfCallables[c]) :
                   listOfCallables[c][k] = listOfCallables[c][1]
            /\ op[c] # "batch_searches" => items[c] = ItemsOf(c)
            /\ pc[c] \notin {"idle", "submit"} =>
                   \A k \in 1..MaxUnits :
                       /\ futures[<<c, k>>].state # "NONE" <=> k <= Len(ItemsOf(c))
                       /\ k <= Len(ItemsOf(c)) =>
                              futures[<<c, k>>].args = <<ItemsOf(c)[k]>>
            /\ (Terminal(c) /\ \A k \in 1..Len(ItemsOf(c)) :
                                  ~IsException(Singular(op[c], ItemsOf(c)[k], <<c, k>>))) =>
                   /\ pc[c] = "returned"
                   /\ Len(outcome[c][2]) = Len(ItemsOf(c))
                   /\ \A k \in 1..Len(ItemsOf(c)) :
                          outcome[c][2][k] = Singular(op[c], ItemsOf(c)[k], <<c, k>>)

\* enrich_people has returned the results for two different urls.
C11_Witness ==
    \E c \in Callers :
        /\ op[c] = "enrich_people"
        /\ pc[c] = "returned"
        /\ Len(outcome[c][2]) = 2
        /\ outcome[c][2][1] # outcome[c][2][2]

\* C12: the wait loop polls: after each sleep it scans the futures again from
\* the first, and it is left only by a scan that found every future of the
\* batch done.
C12_PollsUntilAllDone ==
    [][\A c \in Callers :
           /\ (pc[c] = "sleep" /\ pc'[c] # "sleep") =>
                  (pc'[c] = "for" /\ scan'[c] = 1)
           /\ (pc[c] \in {"for", "sleep"} /\ pc'[c] = "collect") =>
                  \A k \in 1..Len(futureObjs[c]) : FutureDone(futures[futureObjs[c][k]])
      ]_vars

\* C13: within a batch call every unit's callable is called at most once,
\* with its own argument tuple; no unit is skipped or dropped once the submit
\* loop is over, none is added, and a returned batch had each called once.
C13_EachUnitOnce ==
    \A c \in Callers : \A k \in 1..MaxUnits :
        LET u == <<c, k>>
        IN /\ invoked[u] <= 1
           /\ invoked[u] = 1 <=> futures[u].state \in {"RUNNING", "FINISHED"}
           /\ k > BatchSize(c) => (invoked[u] = 0 /\ futures[u].state = "NONE")
           /\ futures[u].state # "NONE" =>
                  /\ futures[u].fn = called[c][2][k]
                  /\ futures[u].args = called[c][3][k]
           /\ (pc[c] \notin {"idle", "submit"} /\ k <= BatchSize(c)) =>
                  /\ futures[u].state # "NONE"
                  /\ futures[u].state = "PENDING" => u \in QueuedUnits
           /\ Cardinality({j \in 1..Len(queue) : queue[j] = u}) <= 1
           /\ (pc[c] = "returned" /\ k <= BatchSize(c)) => invoked[u] = 1

\* A batch with more units than workers has raised, and each of its units
\* has been called once.
C13_Witness ==
    \E c \in Callers :
        /\ pc[c] = "raised"
        /\ BatchSize(c) > numWorkers
        /\ \A u \in UnitsOf(c) : invoked[u] = 1 /\ futures[u].state = "FINISHED"

\* C14: the units of a batch are submitted in input order, each submission
\* possible whatever the state of the units before it, and all of them are
\* submitted before the first completion check or sleep.
C14_SubmitAllFirst ==
    \A c \in Callers :
        /\ \A k \in 1..Len(futureObjs[c]) :
               /\ futureObjs[c][k] = <<c, k>>
               /\ futures[<<c, k>>].args = called[c][3][k]
        /\ \A i, j \in 1..Len(queue) :
               (i < j /\ queue[i][1] = c /\ queue[j][1] = c) => queue[i][2] < queue[j][2]
        /\ pc[c] \in {"for", "sleep", "collect", "returned", "raised"} =>
               /\ Len(futureObjs[c]) = BatchSize(c)
               /\ \A u \in UnitsOf(c) : futures[u].state # "NONE"
        /\ (pc[c] = "submit" /\ Len(futureObjs[c]) < BatchSize(c)) => ENABLED Submit(c)

\* A batch with more units than workers is at its first completion check with
\* every unit submitted, none finished and one still queued.
C14_Witness ==
    \E c \in Callers :
        /\ pc[c] = "for"
        /\ scan[c] = 1
        /\ BatchSize(c) > numWorkers
        /\ \A u \in UnitsOf(c) : futures[u].state \in {"PENDING", "RUNNING"}
        /\ \E u \in UnitsOf(c) : futures[u].state = "PENDING"

\* C15: no cancellation, no timeout: a call that returned a list has no unit
\* still queued or running, and under fair scheduling every unit of a batch
\* that has raised is still run, once, and finishes.
C15_NoCancelNoTimeout ==
    /\ \A c \in Callers :
           [](pc[c] = "returned" =>
                  \A u \in UnitsOf(c) : futures[u].state \notin {"PENDING", "RUNNING"})
    /\ \A c \in Callers :
           (pc[c] = "raised") ~>
               (\A u \in UnitsOf(c) : futures[u].state = "FINISHED" /\ invoked[u] = 1)

\* A batch has raised while one of its units is still queued or running.
C15_Witness ==
    \E c \in Callers :
        /\ pc[c] = "raised"
        /\ \E u \in UnitsOf(c) : futures[u].state \in {"PENDING", "RUNNING"}

FailingUnits(c) == {k \in 1..BatchSize(c) : IsException(Produced(c, k))}

\* C17: the exception a batch call raises is that of its failing unit with
\* the smallest input index, in whatever order the units completed.
C17_FirstFailingIndex ==
    \A c \in Callers :
        pc[c] = "raised" =>
            /\ FailingUnits(c) # {}
            /\ \E k \in FailingUnits(c) :
                   /\ \A j \in FailingUnits(c) : k <= j
                   /\ outcome[c][2] = Produced(c, k)

\* A batch with two failing units, the later of which finished first, has
\* raised.
C17_Witness ==
    \E c \in Callers :
        /\ pc[c] = "raised"
        /\ Cardinality(FailingUnits(c)) >= 2
        /\ outOfOrder[c]

====
